---- MODULE Spec2Model ----
(***************************************************************************)
(* Verification model of the qml-edx notebooks.                            *)
(*                                                                         *)
(* Each notebook is a kernel whose cells are the actions.  A statevector   *)
(* is kept as a block fixed-point vector: the amplitude of basis state i   *)
(* is (v[i].re + i*v[i].im) / (One * sqrt(2)^k).  Gates built from 0, +-1, *)
(* +-i and 1/sqrt(2) are therefore exact; rotation angles are fixed-point  *)
(* numbers whose cosine and sine come from their power series.             *)
(***************************************************************************)
EXTENDS Integers, Sequences, FiniteSets, TLC

VARIABLES notebook, cursor, reruns, hhl, amplitudes, grade,
          model, G, embedded_graph, circuit, counts,
          data, w, ising, sample, output

vars == <<notebook, cursor, reruns, hhl, amplitudes, grade,
          model, G, embedded_graph, circuit, counts,
          data, w, ising, sample, output>>

hhlVars == <<hhl, amplitudes>>

mrfVars == <<model, G, embedded_graph>>

bellVars == <<circuit, counts>>

cutVars == <<data, w, ising, sample>>

-----------------------------------------------------------------------------
(* Bounds of the exploration *)

\* cells that may be executed again out of the top-to-bottom order
MaxReruns == 2

\* terms of the power series of cos and sin
NTerms == 6

\* Newton steps for 1/sqrt(2)
NewtonSteps == 5

\* terms of the power series of exp on [0, 1]
ExpTerms == 10

\* the visibilities tried are the multiples of 1 / 2^VisibilityBits
VisibilityBits == 3

\* nodes and largest weight of the graphs the max-cut identity is tried on
MaxNodes == 3

MaxWeight == 2

-----------------------------------------------------------------------------
(* Fixed-point numbers: the integer x stands for x / One *)

One == 10 ^ 8

Base == 10 ^ 4

\* a block vector is rescaled before an entry can leave the integer range
Limit == 5 * One

Abs(x) == IF x < 0 THEN 0 - x ELSE x

Sgn(x) == IF x < 0 THEN 0 - 1 ELSE 1

\* x / d rounded to the nearest integer, symmetric in the sign of x (d > 0)
RDiv(x, d) == Sgn(x) * ((Abs(x) + (d \div 2)) \div d)

\* the fixed-point product x * y / One, in limbs of Base so that no
\* intermediate value leaves the 32-bit range
FMul(x, y) ==
    LET ax == Abs(x)
        ay == Abs(y)
        x1 == ax \div Base
        x0 == ax % Base
        y1 == ay \div Base
        y0 == ay % Base
        hi == x1 * y1
        mid == x1 * y0 + x0 * y1
        lo == x0 * y0
    IN  Sgn(x) * Sgn(y) * (hi + ((mid + (lo \div Base) + (Base \div 2)) \div Base))

RECURSIVE RSqrt2(_)
\* 1/sqrt(2) by Newton's iteration y <- y (3 - 2 y^2) / 2, from y = 0.7
RSqrt2(n) ==
    IF n = 0 THEN 7 * (One \div 10)
    ELSE LET y == RSqrt2(n - 1)
         IN  RDiv(FMul(y, 3 * One - 2 * FMul(y, y)), 2)

InvSqrt2 == RSqrt2(NewtonSteps)

RECURSIVE CosTerm(_, _)
\* the n-th term theta^(2n) / (4^n (2n)!) of cos(theta/2), without its sign
CosTerm(theta, n) ==
    IF n = 0 THEN One
    ELSE RDiv(FMul(CosTerm(theta, n - 1), FMul(theta, theta)), 4 * (2 * n - 1) * (2 * n))

RECURSIVE SinTerm(_, _)
\* the n-th term theta^(2n+1) / (4^n (2n+1)!) of 2 sin(theta/2), without its sign
SinTerm(theta, n) ==
    IF n = 0 THEN theta
    ELSE RDiv(FMul(SinTerm(theta, n - 1), FMul(theta, theta)), 4 * (2 * n) * (2 * n + 1))

RECURSIVE CosSum(_, _)
\* the series of cos(theta/2) up to term n, with alternating signs
CosSum(theta, n) ==
    IF n = 0 THEN CosTerm(theta, 0)
    ELSE CosSum(theta, n - 1)
           + (IF n % 2 = 0 THEN CosTerm(theta, n) ELSE 0 - CosTerm(theta, n))

RECURSIVE SinSum(_, _)
\* the series of 2 sin(theta/2) up to term n, with alternating signs
SinSum(theta, n) ==
    IF n = 0 THEN SinTerm(theta, 0)
    ELSE SinSum(theta, n - 1)
           + (IF n % 2 = 0 THEN SinTerm(theta, n) ELSE 0 - SinTerm(theta, n))

CosHalf(theta) == CosSum(theta, NTerms - 1)

SinHalfNotHalved(theta) == SinSum(theta, NTerms - 1)

SinHalf(theta) == RDiv(SinSum(theta, NTerms - 1), 2)

-----------------------------------------------------------------------------
(* Complex numbers *)

Cx(r, i) == [re |-> r, im |-> i]

CZero == Cx(0, 0)

CAdd(a, b) == Cx(a.re + b.re, a.im + b.im)

CSub(a, b) == Cx(a.re - b.re, a.im - b.im)

CNeg(a) == Cx(0 - a.re, 0 - a.im)

\* a * i^m for a whole number m of quarter turns (m may be negative)
CTurn(a, m) ==
    LET r == m % 4
    IN  IF r = 0 THEN a
        ELSE IF r = 1 THEN Cx(0 - a.im, a.re)
        ELSE IF r = 2 THEN CNeg(a)
        ELSE Cx(a.im, 0 - a.re)

\* a * x for a real fixed-point x
CScale(a, x) == Cx(FMul(a.re, x), FMul(a.im, x))

-----------------------------------------------------------------------------
(* Statevectors of n qubits; basis index i = sum of bit(q) * 2^q *)

Dim(n) == 2 ^ n

Bit(i, q) == (i \div (2 ^ q)) % 2

Flip(i, q) == IF Bit(i, q) = 1 THEN i - 2 ^ q ELSE i + 2 ^ q

\* the index i with the bits of qubits a and b exchanged
SwapBits(i, a, b) == IF Bit(i, a) = Bit(i, b) THEN i ELSE Flip(Flip(i, a), b)

\* every register starts in |0...0>
ZeroState(n) == [n |-> n, k |-> 0, v |-> [i \in 0..(Dim(n) - 1) |-> IF i = 0 THEN Cx(One, 0) ELSE CZero]]

AllEven(s) == \A i \in DOMAIN s.v : s.v[i].re % 2 = 0 /\ s.v[i].im % 2 = 0

TooBig(s) == \E i \in DOMAIN s.v : Abs(s.v[i].re) > Limit \/ Abs(s.v[i].im) > Limit

RECURSIVE Normalize(_)
\* divide the block by 2 = sqrt(2)^2 while that is exact, or needed to stay in range
Normalize(s) ==
    IF s.k >= 2 /\ (AllEven(s) \/ TooBig(s))
    THEN Normalize([s EXCEPT !.k = s.k - 2,
                             !.v = [i \in DOMAIN s.v |-> Cx(RDiv(s.v[i].re, 2), RDiv(s.v[i].im, 2))]])
    ELSE s

ApplyXOffByOne(s, q) == [s EXCEPT !.v = [i \in DOMAIN s.v |-> s.v[Flip(i, q - 1)]]]

ApplyX(s, q) == [s EXCEPT !.v = [i \in DOMAIN s.v |-> s.v[Flip(i, q)]]]

ApplyH(s, q) ==
    Normalize([s EXCEPT !.k = s.k + 1,
                        !.v = [i \in DOMAIN s.v |->
                                 IF Bit(i, q) = 0 THEN CAdd(s.v[i], s.v[Flip(i, q)])
                                 ELSE CSub(s.v[Flip(i, q)], s.v[i])]])

ApplyCXReversed(s, ctl, tgt) ==
    [s EXCEPT !.v = [i \in DOMAIN s.v |-> IF Bit(i, tgt) = 1 THEN s.v[Flip(i, ctl)] ELSE s.v[i]]]

ApplyCX(s, ctl, tgt) ==
    [s EXCEPT !.v = [i \in DOMAIN s.v |-> IF Bit(i, ctl) = 1 THEN s.v[Flip(i, tgt)] ELSE s.v[i]]]

ApplyCZIgnoresControl(s, ctl, tgt) ==
    [s EXCEPT !.v = [i \in DOMAIN s.v |-> IF Bit(i, tgt) = 1 THEN CNeg(s.v[i]) ELSE s.v[i]]]

ApplyCZ(s, ctl, tgt) ==
    [s EXCEPT !.v = [i \in DOMAIN s.v |->
                       IF Bit(i, ctl) = 1 /\ Bit(i, tgt) = 1 THEN CNeg(s.v[i]) ELSE s.v[i]]]

ApplySwapForgotten(s, a, b) == s

ApplySwap(s, a, b) == [s EXCEPT !.v = [i \in DOMAIN s.v |-> s.v[SwapBits(i, a, b)]]]

\* cu1(lambda): phase e^(i lambda) on |11>, lambda = m quarter turns
ApplyCU1(s, m, ctl, tgt) ==
    [s EXCEPT !.v = [i \in DOMAIN s.v |->
                       IF Bit(i, ctl) = 1 /\ Bit(i, tgt) = 1 THEN CTurn(s.v[i], m) ELSE s.v[i]]]

\* cu3(theta, phi, lambda): on the target, when the control is 1,
\*   [ cos(theta/2)            -e^(i lambda) sin(theta/2)      ]
\*   [ e^(i phi) sin(theta/2)   e^(i (phi+lambda)) cos(theta/2) ]
\* theta is a fixed-point angle, phi and lambda are quarter turns
ApplyCU3(s, theta, phi, lam, ctl, tgt) ==
    LET c == CosHalf(theta)
        sn == SinHalf(theta)
    IN  Normalize([s EXCEPT !.v = [i \in DOMAIN s.v |->
            IF Bit(i, ctl) = 0 THEN s.v[i]
            ELSE IF Bit(i, tgt) = 0
                 THEN CSub(CScale(s.v[i], c), CTurn(CScale(s.v[Flip(i, tgt)], sn), lam))
                 ELSE CAdd(CTurn(CScale(s.v[Flip(i, tgt)], sn), phi),
                           CTurn(CScale(s.v[i], c), phi + lam))]])

-----------------------------------------------------------------------------
(* Circuits: a register size and the gates appended so far *)

Gate(name, q, p) == [name |-> name, q |-> q, p |-> p]

NewCircuit(n) == [n |-> n, gates |-> <<>>]

Append1(circ, g) == [circ EXCEPT !.gates = Append(circ.gates, g)]

ApplyGate(s, g) ==
    CASE g.name = "h" -> ApplyH(s, g.q[1])
      [] g.name = "x" -> ApplyX(s, g.q[1])
      [] g.name = "cx" -> ApplyCX(s, g.q[1], g.q[2])
      [] g.name = "cz" -> ApplyCZ(s, g.q[1], g.q[2])
      [] g.name = "swap" -> ApplySwap(s, g.q[1], g.q[2])
      [] g.name = "cu1" -> ApplyCU1(s, g.p[1], g.q[1], g.q[2])
      [] g.name = "cu3" -> ApplyCU3(s, g.p[1], g.p[2], g.p[3], g.q[1], g.q[2])

RECURSIVE RunGates(_, _, _)
\* the state after the first m gates
RunGates(gates, m, s0) ==
    IF m = 0 THEN s0 ELSE ApplyGate(RunGates(gates, m - 1, s0), gates[m])

Simulate(circ) == RunGates(circ.gates, Len(circ.gates), ZeroState(circ.n))

\* the fixed-point value of the block entry x at exponent k
ToFixed(x, k) ==
    IF k % 2 = 0 THEN RDiv(x, 2 ^ (k \div 2))
    ELSE RDiv(FMul(x, InvSqrt2), 2 ^ (k \div 2))

\* the statevector of the circuit as an array of complex numbers
get_amplitudes(circ) ==
    LET s == Simulate(circ)
    IN  [i \in DOMAIN s.v |-> Cx(ToFixed(s.v[i].re, s.k), ToFixed(s.v[i].im, s.k))]

\* numpy.allclose(a, b): |a - b| <= atol + rtol * |b| entrywise, atol = 1e-8,
\* rtol = 1e-5; the entries of b are real
RTolInv == 10 ^ 5

ATol == One \div (10 ^ 8)

Close(a, b) ==
    LET tol == ATol + (Abs(b.re) \div RTolInv)
        dr == Abs(a.re - b.re)
        di == Abs(a.im - b.im)
    IN  /\ dr <= tol
        /\ di <= tol
        /\ dr * dr + di * di <= tol * tol

allclose(a, b) == DOMAIN a = DOMAIN b /\ \A i \in DOMAIN a : Close(a[i], b[i])

\* numpy.array of real literals, indexed from 0
Array(lits) == [i \in 0..(Len(lits) - 1) |-> Cx(lits[i + 1], 0)]

-----------------------------------------------------------------------------
(* The HHL notebook *)

\* angles of the controlled rotations, and pi/2 as one quarter turn
Theta1 == 39269900

Theta2 == 19634955

Exercise1Gates == <<Gate("h", <<1>>, <<>>), Gate("h", <<2>>, <<>>), Gate("x", <<3>>, <<>>)>>

Exercise2Gates == <<Gate("cz", <<2, 3>>, <<>>)>>

Exercise3Gates ==
    <<Gate("swap", <<1, 2>>, <<>>), Gate("h", <<2>>, <<>>),
      Gate("cu1", <<1, 2>>, <<0 - 1>>), Gate("h", <<1>>, <<>>)>>

Exercise4Gates ==
    <<Gate("swap", <<1, 2>>, <<>>), Gate("cu3", <<1, 0>>, <<Theta1, 0, 0>>),
      Gate("cu3", <<2, 0>>, <<Theta2, 0, 0>>)>>

Exercise5GatesWithoutCz ==
    <<Gate("swap", <<1, 2>>, <<>>), Gate("h", <<1>>, <<>>),
      Gate("cu1", <<1, 2>>, <<1>>), Gate("h", <<2>>, <<>>),
      Gate("swap", <<1, 2>>, <<>>),
      Gate("h", <<1>>, <<>>), Gate("h", <<2>>, <<>>)>>

Exercise5Gates ==
    <<Gate("swap", <<1, 2>>, <<>>), Gate("h", <<1>>, <<>>),
      Gate("cu1", <<1, 2>>, <<1>>), Gate("h", <<2>>, <<>>),
      Gate("swap", <<1, 2>>, <<>>), Gate("cz", <<2, 3>>, <<>>),
      Gate("h", <<1>>, <<>>), Gate("h", <<2>>, <<>>)>>

L05 == One \div 2

L099518473 == 99518473

L009801714 == 9801714

Expected1 == Array(<<0, 0, 0, 0, 0, 0, 0, 0, L05, 0, L05, 0, L05, 0, L05, 0>>)

Expected2 == Array(<<0, 0, 0, 0, 0, 0, 0, 0, L05, 0, L05, 0, 0 - L05, 0, 0 - L05, 0>>)

Expected3 == Array(<<0, 0, 0, 0, 0, 0, 0, 0, 0, 0, One, 0, 0, 0, 0, 0>>)

Expected4 == Array(<<0, 0, 0, 0, 0, 0, 0, 0, 0, 0, 0, 0, L099518473, L009801714, 0, 0>>)

Expected5 == Array(<<0, 0, 0, 0, 0, 0, 0, 0, L099518473, L009801714, 0, 0, 0, 0, 0, 0>>)

\* the cells of the notebook, top to bottom
HHLCells ==
    <<"ex1", "grade1", "ex2", "grade2", "ex3", "grade3", "ex4", "grade4", "ex5", "grade5",
      "measure">>

RECURSIVE IndexOf(_, _, _)
IndexOf(cells, c, i) == IF cells[i] = c THEN i ELSE IndexOf(cells, c, i + 1)

\* the runner executes the next cell, or executes again a cell above it
Execute(nb, cells, c) ==
    /\ notebook = nb
    /\ notebook' = nb
    /\ \/ /\ cursor = IndexOf(cells, c, 1)
          /\ cursor' = cursor + 1
          /\ reruns' = reruns
       \/ /\ IndexOf(cells, c, 1) < cursor
          /\ reruns < MaxReruns
          /\ cursor' = cursor
          /\ reruns' = reruns + 1

HHLExercise1 ==
    /\ Execute("hhl", HHLCells, "ex1")
    /\ hhl' = [NewCircuit(4) EXCEPT !.gates = Exercise1Gates]
    /\ UNCHANGED <<amplitudes, grade, mrfVars, bellVars, cutVars, output>>

HHLSolutionReplaces(c, gates) ==
    /\ Execute("hhl", HHLCells, c)
    /\ hhl' = [hhl EXCEPT !.gates = Exercise1Gates \o gates]
    /\ UNCHANGED <<amplitudes, grade, mrfVars, bellVars, cutVars, output>>

\* a solution cell below Exercise 1 appends its gates to the shared circuit
HHLSolution(c, gates) ==
    /\ Execute("hhl", HHLCells, c)
    /\ hhl' = [hhl EXCEPT !.gates = hhl.gates \o gates]
    /\ UNCHANGED <<amplitudes, grade, mrfVars, bellVars, cutVars, output>>

HHLExercise2 == HHLSolution("ex2", Exercise2Gates)

HHLExercise3 == HHLSolution("ex3", Exercise3Gates)

HHLExercise4 == HHLSolution("ex4", Exercise4Gates)

HHLExercise5 == HHLSolution("ex5", Exercise5Gates)

HHLGrader(c, ex, expected) ==
    /\ Execute("hhl", HHLCells, c)
    /\ amplitudes' = get_amplitudes(hhl)
    /\ grade' = [ex |-> ex, ok |-> allclose(amplitudes', expected)]
    /\ UNCHANGED <<hhl, mrfVars, bellVars, cutVars, output>>

HHLGrade1 == HHLGrader("grade1", 1, Expected1)

HHLGrade2 == HHLGrader("grade2", 2, Expected2)

HHLGrade3 == HHLGrader("grade3", 3, Expected3)

HHLGrade4 == HHLGrader("grade4", 4, Expected4)

HHLGrade5 == HHLGrader("grade5", 5, Expected5)

-----------------------------------------------------------------------------
(* The Markov random field notebook: dimod, networkx, minorminer *)

n_variables == 4

SeqToSet(sq) == {sq[i] : i \in DOMAIN sq}

\* the least member of a set of positions, 0 when it is empty
FirstIndex(hits) == IF hits = {} THEN 0 ELSE CHOOSE i \in hits : \A j \in hits : i <= j

EmptyModel(vartype, offset) ==
    [vartype |-> vartype, offset |-> offset, linear |-> <<>>, quadratic |-> <<>>]

\* BinaryQuadraticModel.add_variable
add_variable(m, v, bias) ==
    LET i == FirstIndex({j \in DOMAIN m.linear : m.linear[j][1] = v})
    IN  IF i = 0 THEN [m EXCEPT !.linear = Append(m.linear, <<v, bias>>)]
        ELSE [m EXCEPT !.linear[i] = <<v, m.linear[i][2] + bias>>]

add_interaction_reversed(m, u, v, bias) ==
    LET m2 == add_variable(add_variable(m, u, 0), v, 0)
    IN  [m2 EXCEPT !.quadratic = Append(m2.quadratic, <<v, u, bias>>)]

\* BinaryQuadraticModel.add_interaction: both endpoints become variables,
\* the bias is added to an existing coupling of the same pair in either order
add_interaction(m, u, v, bias) ==
    LET m2 == add_variable(add_variable(m, u, 0), v, 0)
        IsUV(e) == (e[1] = u /\ e[2] = v) \/ (e[1] = v /\ e[2] = u)
        i == FirstIndex({j \in DOMAIN m2.quadratic : IsUV(m2.quadratic[j])})
    IN  IF i = 0 THEN [m2 EXCEPT !.quadratic = Append(m2.quadratic, <<u, v, bias>>)]
        ELSE [m2 EXCEPT !.quadratic[i] = <<m2.quadratic[i][1], m2.quadratic[i][2],
                                           m2.quadratic[i][3] + bias>>]

RECURSIVE AddLinear(_, _, _)
\* the model after the first i items of h, each added to the model before it
AddLinear(m, h, i) ==
    IF i = 0 THEN m
    ELSE CHOOSE next \in {add_variable(prev, h[i][1], h[i][2]) :
                              prev \in {AddLinear(m, h, i - 1)}} : TRUE

RECURSIVE AddQuadratic(_, _, _)
AddQuadratic(m, J, i) ==
    IF i = 0 THEN m
    ELSE CHOOSE next \in {add_interaction(prev, J[i][1], J[i][2], J[i][3]) :
                              prev \in {AddQuadratic(m, J, i - 1)}} : TRUE

\* dimod.BinaryQuadraticModel(h, J, offset, vartype); h and J are the items
\* of the dictionaries in insertion order
BinaryQuadraticModel(h, J, offset, vartype) ==
    AddQuadratic(AddLinear(EmptyModel(vartype, offset), h, Len(h)), J, Len(J))

\* iterating model.linear / model.quadratic yields the keys
LinearKeys(m) == [i \in DOMAIN m.linear |-> m.linear[i][1]]

LinearValues(m) == [i \in DOMAIN m.linear |-> m.linear[i][2]]

QuadraticKeys(m) == [i \in DOMAIN m.quadratic |-> <<m.quadratic[i][1], m.quadratic[i][2]>>]

QuadraticValues(m) == [i \in DOMAIN m.quadratic |-> m.quadratic[i][3]]

\* networkx.Graph(): nodes in insertion order, each with its neighbours in
\* insertion order
EmptyGraph == [nodes |-> <<>>, adj |-> <<>>]

add_node(g, n) ==
    IF n \in DOMAIN g.adj THEN g
    ELSE [nodes |-> Append(g.nodes, n), adj |-> g.adj @@ (n :> <<>>)]

add_edge(g, u, v) ==
    LET g2 == add_node(add_node(g, u), v)
        Link(a, x, y) == IF y \in SeqToSet(a[x]) THEN a ELSE [a EXCEPT ![x] = Append(a[x], y)]
    IN  [g2 EXCEPT !.adj = Link(Link(g2.adj, u, v), v, u)]

RECURSIVE add_nodes_from(_, _, _)
add_nodes_from(g, ns, i) ==
    IF i = 0 THEN g ELSE add_node(add_nodes_from(g, ns, i - 1), ns[i])

RECURSIVE add_edges_from(_, _, _)
add_edges_from(g, es, i) ==
    IF i = 0 THEN g ELSE add_edge(add_edges_from(g, es, i - 1), es[i][1], es[i][2])

RECURSIVE EdgesFromNoSeen(_, _, _)
EdgesFromNoSeen(g, i, seen) ==
    IF i > Len(g.nodes) THEN <<>>
    ELSE LET n == g.nodes[i]
         IN  [j \in DOMAIN g.adj[n] |-> <<n, g.adj[n][j]>>] \o EdgesFromNoSeen(g, i + 1, seen)

RECURSIVE EdgesFrom(_, _, _)
\* G.edges: for each node in order, its neighbours that were not yet visited
EdgesFrom(g, i, seen) ==
    IF i > Len(g.nodes) THEN <<>>
    ELSE LET n == g.nodes[i]
             Fresh(x) == x \notin seen
             row == SelectSeq(g.adj[n], Fresh)
         IN  [j \in DOMAIN row |-> <<n, row[j]>>] \o EdgesFrom(g, i + 1, seen \cup {n})

Edges(g) == EdgesFrom(g, 1, {})

\* dwave_networkx.chimera_graph(1, 1): one cell, the complete bipartite
\* graph between qubits 0..3 and 4..7
ChimeraNodes == 0..7

ChimeraEdges == {<<i, j>> : i \in 0..3, j \in 4..7}

Adjacent(T, a, b) == <<a, b>> \in T \/ <<b, a>> \in T

RECURSIVE Reach(_, _, _)
\* the members of the set within reached from the set from, along the edges T
Reach(T, within, from) ==
    LET more == {b \in within \ from : \E a \in from : Adjacent(T, a, b)}
    IN  IF more = {} THEN from ELSE Reach(T, within, from \cup more)

Connected(T, chain) == chain # {} /\ \E a \in chain : Reach(T, chain, {a}) = chain

EndPointsAndVariables(S) == UNION {{S[i][1], S[i][2]} : i \in DOMAIN S} \cup (0..(n_variables - 1))

\* the source nodes of an edge list
EndPoints(S) == UNION {{S[i][1], S[i][2]} : i \in DOMAIN S}

\* a minor embedding of the edge list S into T: disjoint connected chains,
\* one per source node, with a target edge between the chains of each source edge
IsEmbedding(emb, S, T) ==
    /\ \A x \in DOMAIN emb : Connected(T, emb[x])
    /\ \A x, y \in DOMAIN emb : x # y => emb[x] \cap emb[y] = {}
    /\ \A i \in DOMAIN S :
         \E a \in emb[S[i][1]], b \in emb[S[i][2]] : Adjacent(T, a, b)

\* the chains of an embedding of this network: it "does not need multiple
\* physical qubits to represent a logical qubit", so a chain is one qubit
Chains(Tnodes) == {{q} : q \in Tnodes}

\* minorminer.find_embedding(S, T): the heuristic is randomised and returns
\* one of the minor embeddings of the edge list S into T
find_embedding(S, Tnodes, T) ==
    {emb \in [EndPoints(S) -> Chains(Tnodes)] : IsEmbedding(emb, S, T)}

\* the items of the dictionaries h and J of Exercise 1
MRF_h == [v \in 1..n_variables |-> <<v - 1, 1>>]

MRF_J_Triangle == <<<<0, 1, 0 - 1>>, <<1, 2, 0 - 1>>, <<0, 2, 0 - 1>>>>

MRF_J == <<<<0, 1, 0 - 1>>, <<1, 2, 0 - 1>>>>

MRFCells == <<"ex1", "grade1", "ex2", "grade2", "ex3", "grade3">>

MRFExercise1 ==
    /\ Execute("mrf", MRFCells, "ex1")
    /\ model' = BinaryQuadraticModel(MRF_h, MRF_J, 0, "BINARY")
    /\ UNCHANGED <<G, embedded_graph, grade, hhlVars, bellVars, cutVars, output>>

MRFGrade1 ==
    /\ Execute("mrf", MRFCells, "grade1")
    /\ grade' = [ex |-> 1,
                 ok |-> /\ model.vartype = "BINARY"
                        /\ Len(model.linear) = 4
                        /\ LinearKeys(model) = <<0, 1, 2, 3>>
                        /\ LinearValues(model) = <<1, 1, 1, 1>>
                        /\ QuadraticKeys(model) = <<<<0, 1>>, <<1, 2>>>>
                        /\ QuadraticValues(model) = <<0 - 1, 0 - 1>>]
    /\ UNCHANGED <<mrfVars, hhlVars, bellVars, cutVars, output>>

MRFExercise2 ==
    /\ Execute("mrf", MRFCells, "ex2")
    /\ LET g1 == add_nodes_from(EmptyGraph, LinearKeys(model), Len(model.linear))
       IN  G' = add_edges_from(g1, QuadraticKeys(model), Len(model.quadratic))
    /\ UNCHANGED <<model, embedded_graph, grade, hhlVars, bellVars, cutVars, output>>

MRFGrade2 ==
    /\ Execute("mrf", MRFCells, "grade2")
    /\ grade' = [ex |-> 2,
                 ok |-> G.nodes = <<0, 1, 2, 3>> /\ Edges(G) = <<<<0, 1>>, <<1, 2>>>>]
    /\ UNCHANGED <<mrfVars, hhlVars, bellVars, cutVars, output>>

MRFExercise3 ==
    /\ Execute("mrf", MRFCells, "ex3")
    /\ embedded_graph' \in find_embedding(Edges(G), ChimeraNodes, ChimeraEdges)
    /\ UNCHANGED <<model, G, grade, hhlVars, bellVars, cutVars, output>>

MRFGrade3 ==
    /\ Execute("mrf", MRFCells, "grade3")
    /\ grade' = [ex |-> 3, ok |-> Cardinality(DOMAIN embedded_graph) = 3]
    /\ UNCHANGED <<mrfVars, hhlVars, bellVars, cutVars, output>>

-----------------------------------------------------------------------------
(* The circuits notebook: the Bell circuit, its measurement and statistics *)

Shots == 100

ProjectOther(s, q, b) ==
    [s EXCEPT !.v = [i \in DOMAIN s.v |-> IF Bit(i, q) = b THEN CZero ELSE s.v[i]]]

\* the amplitudes of s with qubit q found in state b (not renormalised)
Project(s, q, b) ==
    [s EXCEPT !.v = [i \in DOMAIN s.v |-> IF Bit(i, q) = b THEN s.v[i] ELSE CZero]]

Possible(s, q, b) == \E i \in DOMAIN s.v : Bit(i, q) = b /\ s.v[i] # CZero

\* the classical register c with bit j set to b
SetBit(c, j, b) == c - Bit(c, j) * (2 ^ j) + b * (2 ^ j)

RECURSIVE Branches(_, _, _)
\* the runs of one shot through the first m gates: the state left by each
\* possible sequence of measurement results, with the classical register
Branches(gates, m, n) ==
    IF m = 0 THEN {[s |-> ZeroState(n), c |-> 0]}
    ELSE LET g == gates[m]
             before == Branches(gates, m - 1, n)
         IN  IF g.name = "measure"
             THEN {[s |-> Project(r.s, g.q[1], b), c |-> SetBit(r.c, g.p[1], b)] :
                     <<r, b>> \in {x \in before \X {0, 1} : Possible(x[1].s, g.q[1], x[2])}}
             ELSE {[s |-> ApplyGate(r.s, g), c |-> r.c] : r \in before}

RECURSIVE BitStringBit0First(_, _)
BitStringBit0First(c, n) ==
    IF n = 0 THEN ""
    ELSE BitStringBit0First(c, n - 1) \o (IF Bit(c, n - 1) = 1 THEN "1" ELSE "0")

RECURSIVE BitString(_, _)
\* the key of get_counts: classical bit n-1 first, bit 0 last
BitString(c, n) ==
    IF n = 0 THEN ""
    ELSE (IF Bit(c, n - 1) = 1 THEN "1" ELSE "0") \o BitString(c, n - 1)

\* the keys one shot of the circuit can produce
Outcomes(circ) ==
    {BitString(r.c, circ.n) : r \in Branches(circ.gates, Len(circ.gates), circ.n)}

RECURSIVE Tallies(_, _)
\* the dictionaries of total shots spread over the keys K, a key that never
\* came up being absent
Tallies(K, total) ==
    IF K = {} THEN (IF total = 0 THEN {<<>>} ELSE {})
    ELSE LET x == CHOOSE y \in K : TRUE
         IN  UNION {{IF c = 0 THEN t ELSE t @@ (x :> c) : t \in Tallies(K \ {x}, total - c)} :
                      c \in 0..total}

\* execute(circ, qasm_simulator, shots).result().get_counts(circ)
get_counts(circ, shots) == Tallies(Outcomes(circ), shots)

RECURSIVE MeasureAll(_, _)
\* circuit.measure(q, c): qubit i into classical bit i, for each i
MeasureAll(circ, i) ==
    IF i = 0 THEN circ
    ELSE Append1(MeasureAll(circ, i - 1), Gate("measure", <<i - 1>>, <<i - 1>>))

BellGates == <<Gate("h", <<0>>, <<>>), Gate("cx", <<0, 1>>, <<>>)>>

BellCells == <<"bell", "measure", "stats">>

BellCircuit ==
    /\ Execute("circuits", BellCells, "bell")
    /\ circuit' = [NewCircuit(2) EXCEPT !.gates = BellGates]
    /\ UNCHANGED <<counts, grade, hhlVars, mrfVars, cutVars, output>>

BellMeasure ==
    /\ Execute("circuits", BellCells, "measure")
    /\ circuit' = MeasureAll(circuit, circuit.n)
    /\ UNCHANGED <<counts, grade, hhlVars, mrfVars, cutVars, output>>

BellStats ==
    /\ Execute("circuits", BellCells, "stats")
    /\ counts' \in get_counts(circuit, Shots)
    /\ UNCHANGED <<circuit, grade, hhlVars, mrfVars, cutVars, output>>

-----------------------------------------------------------------------------
(* The max-cut notebook: the cost of a cut and its Ising form *)

RECURSIVE SumFn(_, _)
\* the sum of the values of the function f over the set S of its arguments
SumFn(f, S) ==
    IF S = {} THEN 0
    ELSE LET x == CHOOSE y \in S : TRUE
         IN  f[x] + SumFn(f, S \ {x})

\* the nodes of a weight matrix or of a spin assignment
Nodes(m) == DOMAIN m

\* V1 and V2: the nodes with spin +1 and the nodes with spin -1
V1(sigma) == {i \in DOMAIN sigma : sigma[i] = 1}

V2(sigma) == {i \in DOMAIN sigma : sigma[i] = 0 - 1}

\* the cost of the cut: sum of w_ij over i in V1 and j in V2
CutCost(wt, sigma) ==
    LET cross == V1(sigma) \X V2(sigma)
    IN  SumFn([p \in cross |-> wt[p[1]][p[2]]], cross)

QuarterSumUnordered(wt, sigma) ==
    LET pairs == {p \in Nodes(wt) \X Nodes(wt) : p[1] < p[2]}
    IN  SumFn([p \in pairs |-> wt[p[1]][p[2]] * (1 - sigma[p[1]] * sigma[p[2]])], pairs)

\* four times the Ising form: sum of w_ij (1 - sigma_i sigma_j) over all
\* ordered pairs i, j of V
QuarterSum(wt, sigma) ==
    LET pairs == Nodes(wt) \X Nodes(wt)
    IN  SumFn([p \in pairs |-> wt[p[1]][p[2]] * (1 - sigma[p[1]] * sigma[p[2]])], pairs)

\* the symmetric matrices with zero diagonal on n nodes whose weights are
\* drawn from the set weights
SymmetricMatrices(n, weights) ==
    LET upper == {p \in (0..(n - 1)) \X (0..(n - 1)) : p[1] < p[2]}
    IN  {[i \in 0..(n - 1) |-> [j \in 0..(n - 1) |->
            IF i < j THEN u[<<i, j>>] ELSE IF j < i THEN u[<<j, i>>] ELSE 0]] :
         u \in [upper -> weights]}

\* the spin assignments of n nodes
Spins(n) == [0..(n - 1) -> {0 - 1, 1}]

\* both sides of the identity for the graph w and the assignment sample
EvaluateCut ==
    /\ w # <<>>
    /\ output' = [cut |-> CutCost(w, sample), quarter |-> QuarterSum(w, sample)]
    /\ UNCHANGED <<notebook, cursor, reruns, grade, hhlVars, mrfVars, bellVars, cutVars>>

-----------------------------------------------------------------------------
(* The max-cut notebook: the dataset, its distance matrix, the annealer *)

n_instances == 4

\* the runner executes the next cell of the notebook
RunCell(nb, cells, c) ==
    /\ notebook = nb
    /\ notebook' = nb
    /\ cursor = IndexOf(cells, c, 1)
    /\ cursor' = cursor + 1
    /\ reruns' = reruns

\* x * One / y for 0 <= r < y: the next d decimal digits of r / y
RECURSIVE Digits(_, _, _)
Digits(r, y, d) ==
    IF d = 0 THEN 0
    ELSE ((r * 10) \div y) * (10 ^ (d - 1)) + Digits((r * 10) % y, y, d - 1)

\* the fixed-point quotient x / y (x >= 0, y > 0)
FDiv(x, y) == (x \div y) * One + Digits(x % y, y, 8)

RECURSIVE ISqrtFrom(_, _)
\* the integer square root of n by Newton's iteration downwards from x
ISqrtFrom(n, x) ==
    LET y == (x + (n \div x)) \div 2
    IN  IF y >= x THEN x ELSE ISqrtFrom(n, y)

\* the fixed-point square root: four digits from the integer root, the rest
\* from one more Newton step
Sqrt(x) ==
    IF x = 0 THEN 0
    ELSE LET y0 == ISqrtFrom(x, x) * Base
         IN  RDiv(y0 + FDiv(x, y0), 2)

\* numpy.linalg.norm(a - b) of two points
Norm(a, b) ==
    Sqrt(FMul(a[1] - b[1], a[1] - b[1]) + FMul(a[2] - b[2], a[2] - b[2])
           + FMul(a[3] - b[3], a[3] - b[3]))

\* numpy.random.rand() is in [0, 1): the two ends of the range
RandValues == {0, One - 1}

\* the offset of class 2
Shift == <<6 * (One \div 10), One \div 10, 5 * (One \div 100)>>

\* offset + numpy.random.rand(3) / 5
Points(offset) ==
    {<<offset[1] + r[1] \div 5, offset[2] + r[2] \div 5, offset[3] + r[3] \div 5>> :
       r \in RandValues \X RandValues \X RandValues}

Class1Points == Points(<<0, 0, 0>>)

Class2PointsUnshifted == Points(<<0, 0, 0>>)

Class2Points == Points(Shift)

\* numpy.concatenate((class_1, class_2)), rows indexed from 0
Concatenate(class_1, class_2) ==
    [i \in 0..(Len(class_1) + Len(class_2) - 1) |->
       IF i < Len(class_1) THEN class_1[i + 1] ELSE class_2[i + 1 - Len(class_1)]]

\* the datasets the first cell can generate
Datasets ==
    {Concatenate(c1, c2) : c1 \in [1..(n_instances \div 2) -> Class1Points],
                           c2 \in [1..(n_instances \div 2) -> Class2Points]}

\* the matrix of pairwise distances
Gram(d) == [i \in 0..(n_instances - 1) |-> [j \in 0..(n_instances - 1) |-> Norm(d[i], d[j])]]

MaxCutCells == <<"data", "gram", "anneal">>

MaxCutData ==
    /\ RunCell("maxcut", MaxCutCells, "data")
    /\ data' \in Datasets
    /\ UNCHANGED <<w, ising, sample, output, grade, hhlVars, mrfVars, bellVars>>

MaxCutGram ==
    /\ RunCell("maxcut", MaxCutCells, "gram")
    /\ w' = Gram(data)
    /\ UNCHANGED <<data, ising, sample, output, grade, hhlVars, mrfVars, bellVars>>

\* max_cut.max_cut_value(x, w): the sum of w_ij x_i (1 - x_j), x in {0, 1}^n
max_cut_value(x, wt) ==
    LET pairs == (DOMAIN x) \X (DOMAIN x)
    IN  SumFn([p \in pairs |-> wt[p[1]][p[2]] * x[p[1]] * (1 - x[p[2]])], pairs)

\* d[key] = value on the items of a dictionary whose last component is the
\* value: an existing key keeps its place, a new key goes last
DictSet(items, key, value) ==
    LET KeyOf(it) == SubSeq(it, 1, Len(it) - 1)
        i == FirstIndex({k \in DOMAIN items : KeyOf(items[k]) = key})
    IN  IF i = 0 THEN Append(items, key \o <<value>>)
        ELSE [items EXCEPT ![i] = key \o <<value>>]

RECURSIVE CouplingsReversed(_, _, _, _)
CouplingsReversed(Jd, wt, i, j) ==
    IF j >= n_instances THEN Jd
    ELSE CouplingsReversed(DictSet(Jd, <<j, i>>, wt[i][j]), wt, i, j + 1)

RECURSIVE Couplings(_, _, _, _)
\* for j in range(first, n_instances): J[(i, j)] = w[i, j], from j = first on
Couplings(Jd, wt, i, j) ==
    IF j >= n_instances THEN Jd
    ELSE Couplings(DictSet(Jd, <<i, j>>, wt[i][j]), wt, i, j + 1)

RECURSIVE IsingLoop(_, _, _)
\* for i in range(n_instances): h[i] = 0, then the couplings (i, j), j > i
IsingLoop(d, wt, i) ==
    IF i >= n_instances THEN d
    ELSE IsingLoop([h |-> DictSet(d.h, <<i>>, 0), J |-> Couplings(d.J, wt, i, i + 1)],
                   wt, i + 1)

\* the energy of a spin assignment in a model
Energy(m, s) ==
    SumFn([k \in DOMAIN m.linear |-> m.linear[k][2] * s[m.linear[k][1]]], DOMAIN m.linear)
      + SumFn([k \in DOMAIN m.quadratic |->
                 m.quadratic[k][3] * s[m.quadratic[k][1]] * s[m.quadratic[k][2]]],
              DOMAIN m.quadratic)
      + m.offset

\* the annealer cell: J and h, the model, and the first (lowest-energy) of the
\* samples; simulated annealing is a heuristic, so it can be any assignment
MaxCutAnneal ==
    /\ RunCell("maxcut", MaxCutCells, "anneal")
    /\ ising' = IsingLoop([h |-> <<>>, J |-> <<>>], w, 0)
    /\ model' = BinaryQuadraticModel(ising'.h, ising'.J, 0, "SPIN")
    /\ sample' \in Spins(n_instances)
    /\ output' = [energy |-> Energy(model', sample'), sample |-> sample']
    /\ UNCHANGED <<data, w, G, embedded_graph, grade, hhlVars, bellVars>>

-----------------------------------------------------------------------------
(* The measurement cell that closes the HHL notebook *)

\* a cell executed in its turn, never again
Once(A) == reruns' = reruns /\ A

\* hhl.measure(q, c), then 100 shots on the qasm simulator, printed
HHLMeasure ==
    /\ RunCell("hhl", HHLCells, "measure")
    /\ hhl' = MeasureAll(hhl, hhl.n)
    /\ counts' \in get_counts(hhl', Shots)
    /\ output' = counts'
    /\ UNCHANGED <<amplitudes, circuit, grade, mrfVars, cutVars>>

-----------------------------------------------------------------------------
(* The notebook on unitary evolution and open systems *)

\* arrays are indexed from 0; a matrix is the array of its rows
Rows(A) == DOMAIN A

Cols(A) == DOMAIN A[0]

CConj(a) == Cx(a.re, 0 - a.im)

\* the product of two complex numbers with integer parts
CMul(a, b) == Cx(a.re * b.re - a.im * b.im, a.re * b.im + a.im * b.re)

\* the product of two fixed-point complex numbers
CFMul(a, b) == Cx(FMul(a.re, b.re) - FMul(a.im, b.im), FMul(a.re, b.im) + FMul(a.im, b.re))

RECURSIVE CSum(_, _)
\* the sum of the complex values of f over the set S
CSum(f, S) ==
    IF S = {} THEN CZero
    ELSE LET x == CHOOSE y \in S : TRUE
         IN  CAdd(f[x], CSum(f, S \ {x}))

\* A.T.conj()
Dagger(A) == [i \in Cols(A) |-> [j \in Rows(A) |-> CConj(A[j][i])]]

\* A @ B for integer arrays
MatMul(A, B) ==
    [i \in Rows(A) |-> [j \in Cols(B) |-> CSum([k \in Cols(A) |-> CMul(A[i][k], B[k][j])], Cols(A))]]

\* A @ B for float arrays
FMatMul(A, B) ==
    [i \in Rows(A) |-> [j \in Cols(B) |-> CSum([k \in Cols(A) |-> CFMul(A[i][k], B[k][j])], Cols(A))]]

\* numpy.array of rows of real numbers
Matrix(rows) ==
    [i \in 0..(Len(rows) - 1) |-> [j \in 0..(Len(rows[i + 1]) - 1) |-> Cx(rows[i + 1][j + 1], 0)]]

\* numpy.eye(n) in units of one
Eye(n, one) == [i \in 0..(n - 1) |-> [j \in 0..(n - 1) |-> IF i = j THEN Cx(one, 0) ELSE CZero]]

\* c * A, A / c and A + B entrywise on float arrays
Scale(c, A) == [i \in Rows(A) |-> [j \in Cols(A) |-> CScale(A[i][j], c)]]

DivideBy(A, c) == [i \in Rows(A) |-> [j \in Cols(A) |-> Cx(RDiv(A[i][j].re, c), RDiv(A[i][j].im, c))]]

MatAdd(A, B) == [i \in Rows(A) |-> [j \in Cols(A) |-> CAdd(A[i][j], B[i][j])]]

XGateDoubled == Matrix(<<<<0, 1>>, <<2, 0>>>>)

\* X = np.array([[0, 1], [1, 0]])
XGate == Matrix(<<<<0, 1>>, <<1, 0>>>>)

zero_ket == Matrix(<<<<1>>, <<0>>>>)

\* numpy.linalg.norm of an integer array, a float
ArrayNorm(A) ==
    Sqrt(One * SumFn([p \in Rows(A) \X Cols(A) |->
                        A[p[1]][p[2]].re * A[p[1]][p[2]].re + A[p[1]][p[2]].im * A[p[1]][p[2]].im],
                     Rows(A) \X Cols(A)))

\* job.result().get_statevector(circuit)
get_statevector(circ) ==
    LET s == Simulate(circ)
    IN  [i \in DOMAIN s.v |-> Cx(ToFixed(s.v[i].re, s.k), ToFixed(s.v[i].im, s.k))]

\* the two x gates of the reversed circuit
ReverseGates == <<Gate("x", <<0>>, <<>>), Gate("x", <<0>>, <<>>)>>

EvolutionCells == <<"unitary", "norm", "reverse", "mixed", "boltzmann">>

Printed(text, value) == [text |-> text, value |-> value]

EvolutionUnitary ==
    /\ RunCell("evolution", EvolutionCells, "unitary")
    /\ output' = <<Printed("XX^dagger", MatMul(XGate, Dagger(XGate))),
                   Printed("X^daggerX", MatMul(Dagger(XGate), XGate))>>
    /\ UNCHANGED <<grade, hhlVars, mrfVars, bellVars, cutVars>>

EvolutionNorm ==
    /\ RunCell("evolution", EvolutionCells, "norm")
    /\ output' = <<Printed("The norm of the state |0> before applying X", ArrayNorm(zero_ket)),
                   Printed("The norm of the state after applying X",
                           ArrayNorm(MatMul(XGate, zero_ket)))>>
    /\ UNCHANGED <<grade, hhlVars, mrfVars, bellVars, cutVars>>

EvolutionReverse ==
    /\ RunCell("evolution", EvolutionCells, "reverse")
    /\ circuit' = [NewCircuit(1) EXCEPT !.gates = ReverseGates]
    /\ output' = <<Printed("", get_statevector(circuit'))>>
    /\ UNCHANGED <<counts, grade, hhlVars, mrfVars, cutVars>>

\* array / c for a float c, turning an integer array into a float array
OverFloat(A, c) == [i \in Rows(A) |-> [j \in Cols(A) |-> Cx(Sgn(A[i][j].re) * FDiv(Abs(A[i][j].re) * One, c), 0)]]

mixed_state_swapped(pure_state, visibility) ==
    LET density_matrix == FMatMul(pure_state, Dagger(pure_state))
        maximally_mixed_state == DivideBy(Eye(4, One), 2 ^ 2)
    IN  MatAdd(Scale(One - visibility, density_matrix),
               Scale(visibility, maximally_mixed_state))

mixed_state(pure_state, visibility) ==
    LET density_matrix == FMatMul(pure_state, Dagger(pure_state))
        maximally_mixed_state == DivideBy(Eye(4, One), 2 ^ 2)
    IN  MatAdd(Scale(visibility, density_matrix),
               Scale(One - visibility, maximally_mixed_state))

\* the Bell state (|00> + |11>) / sqrt(2) as a column
phi == OverFloat(Matrix(<<<<1>>, <<0>>, <<0>>, <<1>>>>), Sqrt(2 * One))

\* the literal d / 10
Tenths(d) == d * (One \div 10)

\* the visibilities of [0, 1] the function is called with
Visibilities ==
    {k * (One \div (2 ^ VisibilityBits)) : k \in 0..(2 ^ VisibilityBits)}
      \cup {Tenths(d) : d \in 0..10}

Called(text, visibility) ==
    [text |-> text, visibility |-> visibility, value |-> mixed_state(phi, visibility)]

EvolutionMixed ==
    /\ RunCell("evolution", EvolutionCells, "mixed")
    /\ output' = <<Called("Maximum visibility is a pure state:", Tenths(10)),
                   Called("The state is still entangled with visibility 0.8:", Tenths(8)),
                   Called("Entanglement is lost by 0.6:", Tenths(6)),
                   Called("Barely any coherence remains by 0.2:", Tenths(2))>>
    /\ UNCHANGED <<grade, hhlVars, mrfVars, bellVars, cutVars>>

\* a call of mixed_state on the Bell state once the cell has defined it
CallMixedState ==
    /\ notebook = "evolution"
    /\ cursor = IndexOf(EvolutionCells, "mixed", 1) + 1
    /\ \E visibility \in Visibilities :
           output' = <<Called("mixed_state", visibility)>>
    /\ UNCHANGED <<notebook, cursor, reruns, grade, hhlVars, mrfVars, bellVars, cutVars>>

\* np.linspace(start, stop, num): num points, the last one set to stop
linspace(start, stop, num) ==
    LET step == RDiv(stop - start, num - 1)
    IN  [i \in 0..(num - 1) |-> IF i = num - 1 THEN stop ELSE start + i * step]

\* the temperatures .5, 5 and 2000 as fractions
temperatures == <<[num |-> 1, den |-> 2], [num |-> 5, den |-> 1], [num |-> 2000, den |-> 1]>>

energies == linspace(0, 20 * One, 100)

QuotientUnscaled(E, T) == [whole |-> E \div One, frac |-> E % One]

\* E / T as a whole part and a fixed-point fraction, E >= 0; the whole
\* quotient can leave the 32-bit fixed-point range
Quotient(E, T) ==
    LET eI == (E \div One) * T.den
        eF == ((E % One) * T.den) \div T.num
        tot == Digits(eI % T.num, T.num, 8) + eF
    IN  [whole |-> (eI \div T.num) + (tot \div One), frac |-> tot % One]

RECURSIVE ExpSeries(_, _)
\* the series of exp(-f) from its n-th term on, divided by that term:
\* 1 - f/n (1 - f/(n+1) (1 - ...)), cut after the term ExpTerms
ExpSeries(f, n) ==
    IF n > ExpTerms THEN One
    ELSE One - RDiv(FMul(f, ExpSeries(f, n + 1)), n)

\* exp(-f) for 0 <= f <= 1
ExpNegFrac(f) == ExpSeries(f, 1)

\* exp(-1)
InvE == ExpNegFrac(One)

Square(x) == FMul(x, x)

RECURSIVE Power(_, _)
\* the fixed-point power x^n, by repeated squaring
Power(x, n) ==
    IF n = 0 THEN One
    ELSE IF n % 2 = 0 THEN Square(Power(x, n \div 2))
    ELSE FMul(Square(Power(x, n \div 2)), x)

\* np.exp(-y) for y = whole + frac
Exp(y) == FMul(Power(InvE, y.whole), ExpNegFrac(y.frac))

RECURSIVE SumRange(_, _, _)
\* p[lo] + ... + p[hi], summed pairwise
SumRange(p, lo, hi) ==
    IF lo > hi THEN 0
    ELSE IF lo = hi THEN p[lo]
    ELSE LET mid == (lo + hi) \div 2
         IN  SumRange(p, lo, mid) + SumRange(p, mid + 1, hi)

\* probabilities.sum() in units of 100 / One, the sum itself being too
\* large for the fixed-point range
ArraySum(p) ==
    LET last == Cardinality(DOMAIN p) - 1
    IN  SumRange([i \in DOMAIN p |-> p[i] \div 100], 0, last)
          + (SumRange([i \in DOMAIN p |-> p[i] % 100], 0, last) \div 100)

\* probabilities /= Z, with Z in units of 100 / One
DivideAll(p, Z) ==
    [i \in DOMAIN p |-> (p[i] \div Z) * (10 ^ 6) + Digits(p[i] % Z, Z, 6)]

Normalized(p) == DivideAll(p, ArraySum(p))

\* the curve plotted for the temperature T
Boltzmann(T) == Normalized([i \in DOMAIN energies |-> Exp(Quotient(energies[i], T))])

EvolutionBoltzmann ==
    /\ RunCell("evolution", EvolutionCells, "boltzmann")
    /\ output' = [i \in DOMAIN temperatures |->
                     [text |-> i, T |-> temperatures[i], value |-> Boltzmann(temperatures[i])]]
    /\ UNCHANGED <<grade, hhlVars, mrfVars, bellVars, cutVars>>

-----------------------------------------------------------------------------

Init ==
    /\ notebook \in {"hhl", "mrf", "circuits"}
    /\ cursor = 1
    /\ reruns = 0
    /\ hhl = NewCircuit(4)
    /\ amplitudes = Array(<<>>)
    /\ grade = [ex |-> 0, ok |-> FALSE]
    /\ model = EmptyModel("", 0)
    /\ G = EmptyGraph
    /\ embedded_graph = <<>>
    /\ circuit = NewCircuit(2)
    /\ counts = <<>>
    /\ data = <<>>
    /\ w = <<>>
    /\ ising = [h |-> <<>>, J |-> <<>>]
    /\ sample = <<>>
    /\ output = <<>>

Next ==
    \/ HHLExercise1
    \/ HHLGrade1
    \/ HHLExercise2
    \/ HHLGrade2
    \/ HHLExercise3
    \/ HHLGrade3
    \/ HHLExercise4
    \/ HHLGrade4
    \/ HHLExercise5
    \/ HHLGrade5
    \/ MRFExercise1
    \/ MRFGrade1
    \/ MRFExercise2
    \/ MRFGrade2
    \/ MRFExercise3
    \/ MRFGrade3
    \/ BellCircuit
    \/ BellMeasure
    \/ BellStats

Spec == Init /\ [][Next]_vars

\* the max-cut identity on its own: any graph of at most MaxNodes nodes with
\* symmetric weights, any assignment of spins
InitIsing ==
    /\ notebook = "maxcut"
    /\ cursor = 1
    /\ reruns = 0
    /\ hhl = NewCircuit(4)
    /\ amplitudes = Array(<<>>)
    /\ grade = [ex |-> 0, ok |-> FALSE]
    /\ model = EmptyModel("", 0)
    /\ G = EmptyGraph
    /\ embedded_graph = <<>>
    /\ circuit = NewCircuit(2)
    /\ counts = <<>>
    /\ data = <<>>
    /\ \E n \in 1..MaxNodes :
         /\ w \in SymmetricMatrices(n, 0..MaxWeight)
         /\ sample \in Spins(n)
    /\ ising = [h |-> <<>>, J |-> <<>>]
    /\ output = <<>>

NextIsing == EvaluateCut

SpecIsing == InitIsing /\ [][NextIsing]_vars

\* the max-cut notebook, every cell once from top to bottom
InitMaxCut ==
    /\ notebook = "maxcut"
    /\ cursor = 1
    /\ reruns = 0
    /\ hhl = NewCircuit(4)
    /\ amplitudes = Array(<<>>)
    /\ grade = [ex |-> 0, ok |-> FALSE]
    /\ model = EmptyModel("", 0)
    /\ G = EmptyGraph
    /\ embedded_graph = <<>>
    /\ circuit = NewCircuit(2)
    /\ counts = <<>>
    /\ data = <<>>
    /\ w = <<>>
    /\ ising = [h |-> <<>>, J |-> <<>>]
    /\ sample = <<>>
    /\ output = <<>>

NextMaxCut ==
    \/ MaxCutData
    \/ MaxCutGram
    \/ MaxCutAnneal

SpecMaxCut == InitMaxCut /\ [][NextMaxCut]_vars

\* the notebooks of the coherent learning protocols, every cell once from top
\* to bottom (Spec explores the re-execution of exercise cells and stops
\* before the measurement cell)
InitCoherent ==
    /\ notebook \in {"hhl", "evolution"}
    /\ cursor = 1
    /\ reruns = 0
    /\ hhl = NewCircuit(4)
    /\ amplitudes = Array(<<>>)
    /\ grade = [ex |-> 0, ok |-> FALSE]
    /\ model = EmptyModel("", 0)
    /\ G = EmptyGraph
    /\ embedded_graph = <<>>
    /\ circuit = NewCircuit(2)
    /\ counts = <<>>
    /\ data = <<>>
    /\ w = <<>>
    /\ ising = [h |-> <<>>, J |-> <<>>]
    /\ sample = <<>>
    /\ output = <<>>

NextCoherent ==
    \/ Once(HHLExercise1)
    \/ Once(HHLGrade1)
    \/ Once(HHLExercise2)
    \/ Once(HHLGrade2)
    \/ Once(HHLExercise3)
    \/ Once(HHLGrade3)
    \/ Once(HHLExercise4)
    \/ Once(HHLGrade4)
    \/ Once(HHLExercise5)
    \/ Once(HHLGrade5)
    \/ HHLMeasure
    \/ EvolutionUnitary
    \/ EvolutionNorm
    \/ EvolutionReverse
    \/ EvolutionMixed
    \/ CallMixedState
    \/ EvolutionBoltzmann

SpecCoherent == InitCoherent /\ [][NextCoherent]_vars

-----------------------------------------------------------------------------
(* Properties *)

HHLGates1 == Exercise1Gates

HHLGates2 == HHLGates1 \o Exercise2Gates

HHLGates3 == HHLGates2 \o Exercise3Gates

HHLGates4 == HHLGates3 \o Exercise4Gates

HHLGates5 == HHLGates4 \o Exercise5Gates

AmplitudesOf(gates) == get_amplitudes([n |-> 4, gates |-> gates])

Graded(ex) == notebook = "hhl" /\ grade = [ex |-> ex, ok |-> TRUE] /\ amplitudes = get_amplitudes(hhl)

\* C1: when the circuit holds exactly h(q[1]), h(q[2]), x(q[3]), its 16
\* amplitudes are 0.5 at indices 8, 10, 12 and 14 and 0 at every other index.
C1_Exercise1Amplitudes ==
    (notebook = "hhl" /\ hhl.gates = HHLGates1) =>
        get_amplitudes(hhl) =
            [i \in 0..15 |-> IF i \in {8, 10, 12, 14} THEN Cx(One \div 2, 0) ELSE CZero]

C1_Witness == Graded(1) /\ hhl.gates = HHLGates1

\* the entries of a1 with q2 = 1 and q3 = 1 negated, the others kept
SignFlipped(a1) == [i \in DOMAIN a1 |-> IF Bit(i, 2) = 1 /\ Bit(i, 3) = 1 THEN CNeg(a1[i]) ELSE a1[i]]

\* C2: with cz(q[2], q[3]) appended to the Exercise 1 circuit the amplitudes
\* are +0.5 at 8 and 10, -0.5 at 12 and 14, 0 elsewhere: exactly the entries
\* of the Exercise 1 state with q2 = 1 and q3 = 1 have changed sign.
C2_Exercise2Amplitudes ==
    (notebook = "hhl" /\ hhl.gates = HHLGates2) =>
        /\ get_amplitudes(hhl) =
              [i \in 0..15 |-> IF i \in {8, 10} THEN Cx(One \div 2, 0)
                               ELSE IF i \in {12, 14} THEN Cx(0 - (One \div 2), 0)
                               ELSE CZero]
        /\ get_amplitudes(hhl) = SignFlipped(AmplitudesOf(HHLGates1))

C2_Witness == Graded(2) /\ hhl.gates = HHLGates2

\* C3: after the inverse Fourier transform gates of Exercise 3 the state is
\* the basis state 10 (q3 = 1, q2 = 0, q1 = 1, q0 = 0): amplitude exactly 1
\* there and exactly 0 at every other index.
C3_Exercise3BasisState ==
    (notebook = "hhl" /\ hhl.gates = HHLGates3) =>
        /\ get_amplitudes(hhl) = [i \in 0..15 |-> IF i = 10 THEN Cx(One, 0) ELSE CZero]
        /\ <<Bit(10, 3), Bit(10, 2), Bit(10, 1), Bit(10, 0)>> = <<1, 0, 1, 0>>

C3_Witness == Graded(3) /\ hhl.gates = HHLGates3

\* a has cos(theta/2) at index 12, sin(theta/2) at index 13 and 0 elsewhere,
\* the two values being the literals of the grader to within 1e-8
RotatedBy(a, theta) ==
    /\ a = [i \in 0..15 |-> IF i = 12 THEN Cx(CosHalf(theta), 0)
                             ELSE IF i = 13 THEN Cx(SinHalf(theta), 0)
                             ELSE CZero]
    /\ Abs(a[12].re - L099518473) <= ATol
    /\ Abs(a[13].re - L009801714) <= ATol

\* C4: after the gates of Exercise 4 the only non-zero amplitudes are
\* cos(Theta2/2) at index 12 and sin(Theta2/2) at index 13, which are
\* 0.99518473 and 0.09801714 to within 1e-8; the rotation controlled by q[1]
\* leaves the state unchanged.
C4_Exercise4Rotation ==
    (notebook = "hhl" /\ hhl.gates = HHLGates4) =>
        /\ RotatedBy(get_amplitudes(hhl), Theta2)
        /\ AmplitudesOf(HHLGates3 \o SubSeq(Exercise4Gates, 1, 2))
             = AmplitudesOf(HHLGates3 \o SubSeq(Exercise4Gates, 1, 1))

C4_Witness == Graded(4) /\ hhl.gates = HHLGates4

\* a is a4 with the two non-zero entries moved from 12 and 13 to 8 and 9
Uncomputed(a, a4) ==
    /\ a = [i \in 0..15 |-> IF i = 8 THEN a4[12] ELSE IF i = 9 THEN a4[13] ELSE CZero]
    /\ a[8] # CZero
    /\ a[9] # CZero

\* C5: after the eight gates of Exercise 5 the only non-zero amplitudes are
\* at indices 8 and 9 (q1 = q2 = 0, q3 = 1) and they are the values that
\* indices 12 and 13 carried after Exercise 4.
C5_Exercise5Uncompute ==
    (notebook = "hhl" /\ hhl.gates = HHLGates5) =>
        /\ Uncomputed(get_amplitudes(hhl), AmplitudesOf(HHLGates4))
        /\ \A i \in {8, 9} : Bit(i, 1) = 0 /\ Bit(i, 2) = 0 /\ Bit(i, 3) = 1 /\ Bit(i + 4, 3) = 1

C5_Witness == Graded(5) /\ hhl.gates = HHLGates5

\* C6: once Exercise 1 of the Markov random field notebook has run, the
\* model is BINARY, its variables are 0, 1, 2, 3 in that order, each with
\* linear bias 1, and its couplings are (0,1) and (1,2) in that order, each -1.
C6_MarkovModel ==
    (notebook = "mrf" /\ cursor > 1) =>
        /\ model.vartype = "BINARY"
        /\ LinearKeys(model) = <<0, 1, 2, 3>>
        /\ LinearValues(model) = <<1, 1, 1, 1>>
        /\ QuadraticKeys(model) = <<<<0, 1>>, <<1, 2>>>>
        /\ QuadraticValues(model) = <<0 - 1, 0 - 1>>

C6_Witness == notebook = "mrf" /\ grade = [ex |-> 1, ok |-> TRUE] /\ Len(model.linear) = 4

\* C7: once Exercise 2 has run, G has node list [0, 1, 2, 3] and edge list
\* [(0,1), (1,2)]: its nodes are the model's variables and its edges the
\* model's couplings.
C7_GraphOfModel ==
    (notebook = "mrf" /\ cursor > 3) =>
        /\ G.nodes = <<0, 1, 2, 3>>
        /\ Edges(G) = <<<<0, 1>>, <<1, 2>>>>
        /\ G.nodes = LinearKeys(model)
        /\ Edges(G) = QuadraticKeys(model)

C7_Witness == notebook = "mrf" /\ grade = [ex |-> 2, ok |-> TRUE] /\ Len(G.nodes) = 4

\* C8: once Exercise 3 has run, the embedding has exactly the 3 keys 0, 1, 2,
\* the endpoints of G's edges; the isolated variable 3 is not a key.
C8_EmbeddingKeys ==
    (notebook = "mrf" /\ cursor > 5) =>
        /\ DOMAIN embedded_graph = {0, 1, 2}
        /\ Cardinality(DOMAIN embedded_graph) = 3
        /\ DOMAIN embedded_graph = EndPoints(Edges(G))
        /\ 3 \notin DOMAIN embedded_graph
        /\ 3 \in SeqToSet(G.nodes)

C8_Witness ==
    /\ notebook = "mrf"
    /\ grade = [ex |-> 3, ok |-> TRUE]
    /\ IsEmbedding(embedded_graph, Edges(G), ChimeraEdges)
    /\ embedded_graph[1] = {5}

\* C9: in the graph of the Markov random field 0 and 2 are not adjacent,
\* they are connected, every path between them passes through 1, and 3 has
\* no incident edge.
C9_Independences ==
    (notebook = "mrf" /\ cursor > 3) =>
        LET E == SeqToSet(Edges(G))
            N == SeqToSet(G.nodes)
        IN  /\ ~Adjacent(E, 0, 2)
            /\ 2 \in Reach(E, N, {0})
            /\ 2 \notin Reach(E, N \ {1}, {0})
            /\ G.adj[3] = <<>>
            /\ \A n \in N : ~Adjacent(E, n, 3) /\ 3 \notin SeqToSet(G.adj[n])

C9_Witness ==
    /\ notebook = "mrf"
    /\ cursor > 3
    /\ Adjacent(SeqToSet(Edges(G)), 0, 1)
    /\ Adjacent(SeqToSet(Edges(G)), 1, 2)

BellShape(a) == a[0] = a[3] /\ a[0] # CZero /\ a[1] = CZero /\ a[2] = CZero

\* C10: the circuit h(q[0]); cx(q[0], q[1]) has equal non-zero amplitudes on
\* |00> and |11> and zero amplitude on |01> and |10>; once measured, a shot
\* yields 00 or 11, and no dictionary of counts ever holds the key 01 or 10.
C10_BellOutcomes ==
    (notebook = "circuits") =>
        /\ circuit.gates = BellGates =>
              BellShape(get_amplitudes(circuit))
        /\ circuit.gates = MeasureAll([n |-> 2, gates |-> BellGates], 2).gates =>
              Outcomes(circuit) = {"00", "11"}
        /\ "01" \notin DOMAIN counts
        /\ "10" \notin DOMAIN counts

C10_Witness ==
    /\ notebook = "circuits"
    /\ cursor = 4
    /\ reruns = 0
    /\ DOMAIN counts = {"00", "11"}
    /\ counts["00"] + counts["11"] = Shots

\* C11: for every symmetric weight matrix with zero diagonal and every spin
\* assignment, the cost of the cut between V1 and V2 equals one quarter of
\* the sum of w_ij (1 - sigma_i sigma_j) over all ordered pairs (i, j).
C11_MaxCutIsing ==
    output # <<>> =>
        /\ output.quarter % 4 = 0
        /\ output.cut = output.quarter \div 4
        /\ output.cut = CutCost(w, sample)

C11_Witness ==
    /\ output # <<>>
    /\ DOMAIN w = 0..2
    /\ V1(sample) = {0, 2}
    /\ V2(sample) = {1}
    /\ output.cut = 2 * MaxWeight

\* the distances between instances of one class and of different classes
Within(wt) == {wt[0][1], wt[2][3]}

Between(wt) == {wt[i][j] : <<i, j>> \in {0, 1} \X {2, 3}}

\* the assignments of n_instances nodes to the two sides of a cut
Cuts == [0..(n_instances - 1) -> {0, 1}]

\* C12: for every dataset the first cell generates, every distance between
\* the classes exceeds every distance within a class, and the cuts of largest
\* value are exactly the two assignments that separate {0, 1} from {2, 3}.
C12_CutMatchesClusters ==
    (notebook = "maxcut" /\ cursor = 3) =>
        LET split == [i \in 0..(n_instances - 1) |-> IF i < 2 THEN 0 ELSE 1]
            best == max_cut_value(split, w)
        IN  /\ \A b \in Between(w) : \A a \in Within(w) : b > a
            /\ \A x \in Cuts :
                 IF \A i \in DOMAIN x : x[i] = split[i] THEN TRUE
                 ELSE IF \A i \in DOMAIN x : x[i] = 1 - split[i]
                      THEN max_cut_value(x, w) = best
                      ELSE max_cut_value(x, w) < best

\* the two class 1 instances at opposite corners of their cube, the nearest
\* corners of the two cubes taken by instances 1 and 2
C12_Witness ==
    /\ notebook = "maxcut"
    /\ cursor = 3
    /\ data[0] = <<0, 0, 0>>
    /\ data[1] = <<(One - 1) \div 5, (One - 1) \div 5, (One - 1) \div 5>>
    /\ data[2] = Shift
    /\ w[0][1] > 34 * (One \div 100)
    /\ w[1][2] < 44 * (One \div 100)

\* C13: the generated dataset has ten instances, the first five in class 1
\* (the cube at the origin) and the second five in class 2 (the shifted cube),
\* and the first five instances have the same spin in the annealer's sample.
C13_TenInstances ==
    (notebook = "maxcut" /\ cursor > 1) =>
        /\ DOMAIN data = 0..9
        /\ \A i \in 0..4 : data[i] \in Class1Points
        /\ \A i \in 5..9 : data[i] \in Class2Points
        /\ cursor > 3 => \A i \in 0..4 : sample[i] = sample[0]

\* the keys of the items of a dictionary, in insertion order
Keys(items) == [k \in DOMAIN items |-> SubSeq(items[k], 1, Len(items[k]) - 1)]

\* C20: after the annealer cell h has exactly the keys 0..n_instances-1, each
\* with value 0, and J has exactly the keys (i, j) with i < j, 6 of them,
\* each with value w[i][j]; no key (i, i) and no key (j, i) with j > i.
C20_AnnealerModel ==
    (notebook = "maxcut" /\ cursor > 3) =>
        /\ Keys(ising.h) = [i \in 1..n_instances |-> <<i - 1>>]
        /\ \A k \in DOMAIN ising.h : ising.h[k][2] = 0
        /\ SeqToSet(Keys(ising.J))
             = {p \in (0..(n_instances - 1)) \X (0..(n_instances - 1)) : p[1] < p[2]}
        /\ Len(ising.J) = 6
        /\ \A k \in DOMAIN ising.J : ising.J[k][3] = w[ising.J[k][1]][ising.J[k][2]]
        /\ \A k \in DOMAIN ising.J : ising.J[k][1] # ising.J[k][2] /\ ~(ising.J[k][1] > ising.J[k][2])

C20_Witness ==
    /\ notebook = "maxcut"
    /\ cursor = 4
    /\ Keys(ising.J) = <<<<0, 1>>, <<0, 2>>, <<0, 3>>, <<1, 2>>, <<1, 3>>, <<2, 3>>>>
    /\ ising.J[1][3] > 0
    /\ ising.J[6][3] = 0
    /\ Len(model.quadratic) = 6

\* the sum of the counts of a dictionary
Total(cnt) == SumFn(cnt, DOMAIN cnt)

Support(s) == {i \in DOMAIN s.v : s.v[i] # CZero}

\* C15: after Exercise 5, the state left when the ancilla q0 is measured as 1
\* has a single basis state, index 9: q1 = q2 = 0 and q3 = 1, so the solution
\* qubit q3 is in a multiple of |1>; that outcome is possible.
C15_AncillaOne ==
    (notebook = "hhl" /\ hhl.gates = HHLGates5) =>
        /\ Possible(Simulate(hhl), 0, 1)
        /\ Support(Project(Simulate(hhl), 0, 1)) = {9}
        /\ <<Bit(9, 0), Bit(9, 1), Bit(9, 2), Bit(9, 3)>> = <<1, 0, 0, 1>>

C15_Witness ==
    /\ notebook = "hhl"
    /\ hhl.gates = HHLGates5
    /\ grade = [ex |-> 5, ok |-> TRUE]
    /\ Simulate(hhl).v[9] # CZero

\* C16: X X^dagger and X^dagger X are both the identity matrix, X is its own
\* conjugate transpose, and the one-qubit circuit that applies x(q[0]) twice
\* to |0> has the statevector [1, 0].
C16_XUnitary ==
    /\ (notebook = "evolution" /\ cursor = 2) =>
          /\ output[1].value = Eye(2, 1)
          /\ output[2].value = Eye(2, 1)
          /\ Dagger(XGate) = XGate
    /\ (notebook = "evolution" /\ cursor > 3) =>
          /\ circuit.gates = ReverseGates
          /\ get_statevector(circuit) = Array(<<One, 0>>)
    /\ (notebook = "evolution" /\ cursor = 4) =>
          output[1].value = Array(<<One, 0>>)

C16_Witness ==
    /\ notebook = "evolution"
    /\ cursor = 4
    /\ Len(circuit.gates) = 2
    /\ Simulate([n |-> 1, gates |-> SubSeq(circuit.gates, 1, 1)]).v[1] = Cx(One, 0)
    /\ output[1].value[0] = Cx(One, 0)

\* the real part of the (i, j) entry of a float array
Entry(A, i, j) == A[i][j].re

\* the sum of the diagonal of a square float array
Trace(A) == SumFn([i \in Rows(A) |-> Entry(A, i, i)], Rows(A))

\* the matrix has exactly the entries claimed for the visibility v
HasClaimedEntries(A, v) ==
    /\ Rows(A) = 0..3
    /\ \A i \in 0..3 : Cols(A) = 0..3 /\ \A j \in 0..3 : A[i][j].im = 0
    /\ \A i \in {0, 3} : 4 * Entry(A, i, i) = One + v
    /\ \A i \in {1, 2} : 4 * Entry(A, i, i) = One - v
    /\ 2 * Entry(A, 0, 3) = v
    /\ 2 * Entry(A, 3, 0) = v
    /\ \A i, j \in 0..3 : (i # j /\ {i, j} # {0, 3}) => Entry(A, i, j) = 0

\* C17: every call mixed_state(phi, v) on the Bell state returns the matrix
\* with (1+v)/4 at (0,0) and (3,3), (1-v)/4 at (1,1) and (2,2), v/2 at (0,3)
\* and (3,0) and 0 elsewhere; its trace is 1; for v = 1 it is the pure-state
\* density matrix with 0.5 at the four corners.
C17_MixedStateEntries ==
    (notebook = "evolution" /\ cursor = 5) =>
        \A k \in DOMAIN output :
            LET v == output[k].visibility
                A == output[k].value
            IN  /\ HasClaimedEntries(A, v)
                /\ Trace(A) = One
                /\ v = One =>
                      /\ A = FMatMul(phi, Dagger(phi))
                      /\ \A i, j \in {0, 3} : Entry(A, i, j) = One \div 2

C17_Witness ==
    /\ notebook = "evolution"
    /\ cursor = 5
    /\ Len(output) = 1
    /\ output[1].visibility = 3 * (One \div 8)
    /\ Entry(output[1].value, 0, 3) = 3 * (One \div 16)
    /\ Entry(output[1].value, 1, 1) = 5 * (One \div 32)

\* the partial transpose over the second qubit: entry ((a,b),(c,d)) is
\* entry ((a,d),(c,b)) of the state
PartialTranspose(A) ==
    [i \in 0..3 |-> [j \in 0..3 |->
        A[2 * (i \div 2) + (j % 2)][2 * (j \div 2) + (i % 2)]]]

\* <psi| A |psi> for a real vector psi with entries in -1..1
Expectation(A, psi) ==
    SumFn([p \in (0..3) \X (0..3) |-> psi[p[1]] * Entry(A, p[1], p[2]) * psi[p[2]]],
          (0..3) \X (0..3))

HasNegativeExpectation(A) ==
    \E psi \in [0..3 -> {0 - 1, 0, 1}] : Expectation(A, psi) < 0

\* C18: the state printed for visibility 0.8 is entangled and the state
\* printed for visibility 0.6 is separable: its partial transpose has no
\* negative expectation value.
C18_EntanglementLost ==
    (notebook = "evolution" /\ cursor = 5 /\ Len(output) = 4) =>
        /\ output[2].visibility = Tenths(8)
        /\ HasNegativeExpectation(PartialTranspose(output[2].value))
        /\ output[3].visibility = Tenths(6)
        /\ ~HasNegativeExpectation(PartialTranspose(output[3].value))

\* C19: each of the three plotted curves sums to 1 (to within the
\* truncation of its 100 quotients), is non-increasing in the energy, and the
\* probability of the lowest energy is larger for the lower temperature.
C19_BoltzmannCurves ==
    (notebook = "evolution" /\ cursor = 6) =>
        /\ \A t \in DOMAIN output :
              LET p == output[t].value
              IN  /\ DOMAIN p = 0..99
                  /\ Abs(SumRange(p, 0, 99) - One) <= 2 * 100
                  /\ \A i \in 0..98 : p[i + 1] <= p[i]
        /\ \A t \in 1..2 : output[t].value[0] > output[t + 1].value[0]

C19_Witness ==
    /\ notebook = "evolution"
    /\ cursor = 6
    /\ Len(output) = 3
    /\ output[1].T = [num |-> 1, den |-> 2]
    /\ output[1].value[0] > 3 * (One \div 10)
    /\ output[1].value[99] = 0
    /\ output[3].value[99] > 99 * (One \div 10000)
    /\ output[3].value[0] < 101 * (One \div 10000)

\* the gates of the solution cells 1..k, each cell run once, top to bottom
SolutionGates(k) ==
    CASE k = 1 -> Exercise1Gates
      [] k = 2 -> Exercise1Gates \o Exercise2Gates
      [] k = 3 -> Exercise1Gates \o Exercise2Gates \o Exercise3Gates
      [] k = 4 -> Exercise1Gates \o Exercise2Gates \o Exercise3Gates \o Exercise4Gates
      [] k = 5 -> Exercise1Gates \o Exercise2Gates \o Exercise3Gates \o Exercise4Gates
                    \o Exercise5Gates

\* a step of the grading cell of exercise k
GradeStep(k) ==
    /\ grade'.ex = k
    /\ hhl' = hhl
    /\ CASE k = 1 -> HHLGrade1
         [] k = 2 -> HHLGrade2
         [] k = 3 -> HHLGrade3
         [] k = 4 -> HHLGrade4
         [] k = 5 -> HHLGrade5

\* the circuit after the Exercise 2 cell has run twice on top of Exercise 1
TwiceExercise2 == Exercise1Gates \o Exercise2Gates \o Exercise2Gates

\* executing the Exercise 2 cell again right after its first run appends a
\* second cz and brings the state back to the one after Exercise 1
RerunExercise2 ==
    (cursor = 4 /\ hhl.gates = SolutionGates(2) /\ HHLExercise2) =>
        /\ hhl'.gates = TwiceExercise2
        /\ Simulate(hhl') = Simulate([hhl EXCEPT !.gates = Exercise1Gates])
        /\ get_amplitudes(hhl') = Expected1
        /\ ~allclose(get_amplitudes(hhl'), Expected2)

\* C21 as stated: the second run of the Exercise 2 cell undoes the first and
\* the Exercise 2 assertion then fails, and an assertion holds only when every
\* solution cell up to it has run exactly once, top to bottom.
C21_OnlyWhenRunOnce ==
    [][/\ RerunExercise2
       /\ (hhl.gates = TwiceExercise2 /\ GradeStep(2)) => ~grade'.ok
       /\ \A k \in 1..5 : (grade'.ok /\ GradeStep(k)) =>
             \E j \in 1..5 : hhl.gates = SolutionGates(j)]_vars

\* C21: hhl is shared by the cells and a solution cell appends to it: the
\* second run of the Exercise 2 cell brings the state back to the one after
\* Exercise 1 and the Exercise 2 assertion then fails; every assertion holds
\* when the solution cells up to it have each run once, top to bottom (it can
\* also hold otherwise, as after an odd number of runs of the Exercise 2 cell).
C21_RerunUndoesExercise2 ==
    [][/\ RerunExercise2
       /\ (hhl.gates = TwiceExercise2 /\ GradeStep(2)) => ~grade'.ok
       /\ \A k \in 1..5 : (hhl.gates = SolutionGates(k) /\ GradeStep(k)) => grade'.ok]_vars

C21_Witness ==
    /\ notebook = "hhl"
    /\ cursor = 5
    /\ reruns = 1
    /\ hhl.gates = TwiceExercise2
    /\ amplitudes = Expected1
    /\ grade = [ex |-> 2, ok |-> FALSE]

====
